---- MODULE Spec2Model ----
(***************************************************************************)
(* Sentrilock: the consecutive-unauthorized-attempt detector.              *)
(*                                                                         *)
(* Five parts of the program are modelled.                                 *)
(*  - hooks/useUnauthorizedAttemptDetection.ts, a React hook that          *)
(*    subscribes to "the 3 most recent documents of the logs collection,   *)
(*    newest first" and, on every snapshot, decides whether to raise a     *)
(*    security alert and show a browser notification (Spec).  The logs     *)
(*    collection and the bulk delete screen are its environment.  The hook *)
(*    is unmounted and mounted again in SpecRestart.                       *)
(*  - functions/src/index.ts, the Cloud Function onLogCreated, which runs  *)
(*    the same check on the server for every created log, multicasts a     *)
(*    push and writes a security_incidents record (SpecServer).            *)
(*  - utils/notifications.ts, the registry of device tokens in the users   *)
(*    collection, together with the server's cleanup of failed tokens      *)
(*    (SpecTokens).                                                        *)
(*  - app/screens/bulkDeleteLogs.tsx over the logs of the dashboard        *)
(*    context: the preview deleteStats and performBulkDelete (SpecBulk).   *)
(*  - components/roomCard.tsx, the unlock button of a room (SpecCard).     *)
(*                                                                         *)
(* Representation choices:                                                 *)
(*  - the logs collection is a sequence in timestamp order (oldest first); *)
(*    a document is [id, action, roomId];                                  *)
(*  - a JavaScript Set is a duplicate-free sequence in insertion order;    *)
(*  - null (lastDetection) is the record NoDetection, detected = FALSE;    *)
(*  - a listener that reported an error goes on delivering until it is    *)
(*    unsubscribed; one that stays silent shows a prefix of that;          *)
(*  - an invocation of the Cloud Function advances from one awaited read   *)
(*    or write of a collection to the next; invocations interleave;        *)
(*  - saveFCMToken and removeFCMToken each act in one step;                *)
(*  - an awaited call of the Cloud Function may reject;                    *)
(*  - a log's timestamp is the day of its creation index;                  *)
(*  - the timers of a card are counted, they come due in any order with    *)
(*    the other steps;                                                     *)
(*  - DetectionResult.timestamp (new Date()) is not modelled;              *)
(*  - document ids are Firestore auto-ids: alphanumeric, no "-".           *)
(***************************************************************************)
EXTENDS Naturals, Sequences, FiniteSets

VARIABLES
    store,              \* the logs collection, oldest first
    nextId,             \* index of the next document id to hand out
    feed,               \* "changed" | "delivered" | "redelivered": the query result vs. the listener
    listener,           \* "idle" | "active" | "errored" | "detached"
    isMonitoring,       \* useState(false)
    lastDetection,      \* useState<DetectionResult | null>(null)
    previousLogs,       \* previousLogsRef.current
    notificationShown,  \* notificationShownRef.current
    alerts,             \* the calls showSecurityAlert(roomId, logs) made so far
    tray,               \* the browser notifications on display, oldest first
    users,              \* the users collection: fcmTokens and notificationSettings
    calls,              \* the invocations of onLogCreated, in the order they started
    incidents,          \* the security_incidents collection, in the order written
    selectedRoom,       \* DashboardProvider: useState<string | null>(null)
    criteria,           \* BulkDeleteLogsScreen: its useState fields
    cards,              \* RoomCard, one per room: its useState fields, its request, its timers
    occupied            \* room.occupied of each room

vars == <<store, nextId, feed, listener, isMonitoring, lastDetection,
          previousLogs, notificationShown, alerts, tray, users, calls, incidents,
          selectedRoom, criteria, cards, occupied>>

hookVars == <<feed, listener, isMonitoring, lastDetection, previousLogs,
              notificationShown, alerts, tray>>

serverVars == <<users, calls, incidents>>

consoleVars == <<selectedRoom, criteria, cards, occupied>>

(***************************************************************************)
(* Program constants and model bounds                                      *)
(***************************************************************************)
K == 3
KeepLast == 10

MaxLogs == 13
MaxMixed == 4

\* Restarts of the hook are explored until this many alerts were raised.
MaxAlerts == 3

MaxServerLogs == 4
MaxInFlight == 2
MaxBulkLogs == 2

\* A card is pressed again while at most this many reset timers are pending.
MaxTimers == 2

Unauthorized == "unauthorized_attempt"
LogActions == {Unauthorized, "authorized_entry"}
Rooms == {"", "room1"}
UnknownLocation == "Unknown Location"

LogIds == <<"a", "b", "c", "d", "e", "f", "g", "h", "i", "j", "k", "l", "m",
            "n", "o", "p", "q", "r">>

NoDetection == [detected |-> FALSE, attempts |-> <<>>, roomId |-> ""]

UserIds == {"u1", "u2"}
Tokens == {"t1", "t2"}

\* fcmTokens.web: null
NoToken == "null"

\* a user document without fcmTokens and without notificationSettings
NoUser == [web |-> NoToken, webTokens |-> <<>>, enabled |-> FALSE]

(***************************************************************************)
(* Pure helpers                                                            *)
(***************************************************************************)
Reverse(s) == [i \in 1..Len(s) |-> s[Len(s) + 1 - i]]

Min(a, b) == IF a < b THEN a ELSE b

\* query(collection(db, "logs"), orderBy("timestamp", "desc"), limit(3))
QuerySnapshot(st) == [i \in 1..Min(K, Len(st)) |-> st[Len(st) + 1 - i]]

\* Faulty variant: the snapshot is used in the order the query returns it.
SnapshotOrderLogs(snapshot) == snapshot

\* snapshot.forEach(push); logs.reverse()
ChronologicalLogs(snapshot) == Reverse(snapshot)

\* Faulty variant: any non-empty window is evaluated.
HasAnyLogs(logs) == Len(logs) > 0

\* logs.length === 3
HasFullWindow(logs) == Len(logs) = K

\* Faulty variant: some() instead of every().
someUnauthorized(logs) == \E i \in 1..Len(logs) : logs[i].action = Unauthorized

\* logs.every((log) => log.action === "unauthorized_attempt")
allUnauthorized(logs) == \A i \in 1..Len(logs) : logs[i].action = Unauthorized

\* x || "Unknown Location"
OrUnknown(room) == IF room = "" THEN UnknownLocation ELSE room

\* Faulty variant: the room of the oldest entry of the window.
RoomOfOldest(logs) == OrUnknown(logs[1].roomId)

\* logs[logs.length - 1].roomId || "Unknown Location"
RoomOf(logs) == OrUnknown(logs[Len(logs)].roomId)

RECURSIVE Join(_, _)
\* Array.prototype.join
Join(strs, sep) ==
    IF Len(strs) = 0 THEN ""
    ELSE IF Len(strs) = 1 THEN strs[1]
    ELSE strs[1] \o sep \o Join(Tail(strs), sep)

\* Faulty variant: the key is the room of the run.
roomKey(logs) == RoomOf(logs)

\* logs.map((l) => l.id).join("-")
detectionKey(logs) == Join([i \in 1..Len(logs) |-> logs[i].id], "-")

\* Faulty variant: the history is never consulted.
SetNeverHas(set, key) == FALSE

\* Set.prototype.has
SetHas(set, key) == \E i \in 1..Len(set) : set[i] = key

\* Set.prototype.add
SetAdd(set, key) == IF SetHas(set, key) THEN set ELSE Append(set, key)

\* Array.prototype.slice(-n)
SliceLast(arr, n) ==
    IF Len(arr) <= n THEN arr ELSE SubSeq(arr, Len(arr) - n + 1, Len(arr))

\* Faulty variant: the history is never pruned.
KeepAllKeys(keys) == keys

\* Faulty variant: slice(0, 10), the first ten keys are kept.
KeepFirstKeys(keys) == IF Len(keys) > KeepLast THEN SubSeq(keys, 1, KeepLast) ELSE keys

\* if (size > 10) notificationShownRef.current = new Set(keysArray.slice(-10))
PruneKeys(keys) == IF Len(keys) > KeepLast THEN SliceLast(keys, KeepLast) ELSE keys

(***************************************************************************)
(* The browser notification of an alert                                    *)
(***************************************************************************)
\* What a call of showCustomNotification comes to: the notification is put
\* on display, Notification.permission is not "granted", or building or
\* constructing the notification throws.
NotifyOutcomes == {"shown", "denied", "threw"}

SecurityAlertTag == "security-alert"

\* the options showSecurityAlert passes: tag, data.roomId, data.attempts[].id
SecurityNotification(roomId, attempts) ==
    [tag |-> SecurityAlertTag, roomId |-> roomId,
     attempts |-> [i \in 1..Len(attempts) |-> attempts[i].id]]

\* Faulty variant: the tag is ignored, every notification is added.
StackNotification(shown, n) == Append(shown, n)

\* new Notification(title, options): a notification replaces the one on
\* display that carries its tag
ShowNotification(shown, n) ==
    Append(SelectSeq(shown, LAMBDA m : m.tag # n.tag), n)

\* showCustomNotification: nothing is displayed unless permission is granted
showCustomNotification(shown, n, outcome) ==
    IF outcome = "shown" THEN ShowNotification(shown, n) ELSE shown

\* showSecurityAlert(roomId, logs)
showSecurityAlert(shown, roomId, attempts, outcome) ==
    showCustomNotification(shown, SecurityNotification(roomId, attempts), outcome)

\* Faulty variant: an exception of the notification escapes into the callback.
ThrowEscapes(outcome) == outcome # "threw"

\* showSecurityAlert is async, is not awaited, and catches everything: the
\* callback goes on whatever the notification comes to
CallReturns(outcome) == TRUE

\* the three nested conditions of the snapshot callback
ShouldAlert(logs, shown) ==
    /\ HasFullWindow(logs)
    /\ allUnauthorized(logs)
    /\ ~SetHas(shown, detectionKey(logs))

\* const detection: DetectionResult = { detected: true, attempts: logs, roomId }
Detection(logs) == [detected |-> TRUE, attempts |-> logs, roomId |-> RoomOf(logs)]

(***************************************************************************)
(* The admin console: dashboard context, bulk delete screen, room cards    *)
(***************************************************************************)
NoRoom == "null"
NoDate == 0
NoDays == 0
DeleteModes == {"olderThan", "dateRange", "specificDate", "byAction", "byRoom"}
CardRooms == {"room1", "room2"}

\* the useState initial values of BulkDeleteLogsScreen
InitialCriteria ==
    [deleteMode |-> "olderThan", daysOld |-> 30, startDate |-> NoDate,
     endDate |-> NoDate, specificDate |-> NoDate,
     selectedActions |-> {}, selectedRooms |-> {}]

\* the useState initial values of RoomCard; no request sent, no timer set
InitialCard ==
    [isUnlocking |-> FALSE, unlockStatus |-> "idle", request |-> "none", timers |-> 0]

InitConsole ==
    /\ selectedRoom = NoRoom
    /\ criteria = InitialCriteria
    /\ cards = [r \in CardRooms |-> InitialCard]
    /\ occupied = [r \in CardRooms |-> FALSE]

(***************************************************************************)
(* The state after construction: nothing subscribed, nothing detected      *)
(***************************************************************************)
Init ==
    /\ store = <<>>
    /\ nextId = 1
    /\ feed = "changed"
    /\ listener = "idle"
    /\ isMonitoring = FALSE
    /\ lastDetection = NoDetection
    /\ previousLogs = <<>>
    /\ notificationShown = <<>>
    /\ alerts = <<>>
    /\ tray = <<>>
    /\ users = [u \in UserIds |-> NoUser]
    /\ calls = <<>>
    /\ incidents = <<>>
    /\ InitConsole

(***************************************************************************)
(* The hook                                                                *)
(***************************************************************************)
\* useEffect body: setIsMonitoring(true); onSnapshot(logsQuery, ...)
Mount ==
    /\ listener = "idle"
    /\ listener' = "active"
    /\ isMonitoring' = TRUE
    /\ feed' = "changed"
    /\ UNCHANGED <<store, nextId, lastDetection, previousLogs,
                   notificationShown, alerts, tray>>
    /\ UNCHANGED serverVars
    /\ UNCHANGED consoleVars

\* Beyond the first MaxMixed documents only notifications that are put on
\* display are explored.
ExploredOutcomes == IF nextId > MaxMixed + 1 THEN {"shown"} ELSE NotifyOutcomes

\* the snapshot callback; it runs as long as onSnapshot has been called and
\* the returned unsubscribe has not
OnSnapshot ==
    /\ listener \notin {"idle", "detached"}
    /\ LET logs == ChronologicalLogs(QuerySnapshot(store))
       IN IF ShouldAlert(logs, notificationShown)
             THEN \E outcome \in ExploredOutcomes :
                     /\ alerts' = Append(alerts, [roomId |-> RoomOf(logs), attempts |-> logs])
                     /\ tray' = showSecurityAlert(tray, RoomOf(logs), logs, outcome)
                     /\ IF CallReturns(outcome)
                           THEN /\ lastDetection' = Detection(logs)
                                /\ notificationShown' =
                                       PruneKeys(SetAdd(notificationShown, detectionKey(logs)))
                                /\ previousLogs' = logs
                           ELSE UNCHANGED <<lastDetection, notificationShown, previousLogs>>
             ELSE /\ UNCHANGED <<alerts, tray, lastDetection, notificationShown>>
                  /\ previousLogs' = logs
    /\ feed' = IF feed = "changed" THEN "delivered" ELSE "redelivered"
    /\ UNCHANGED <<store, nextId, listener, isMonitoring>>
    /\ UNCHANGED serverVars
    /\ UNCHANGED consoleVars

\* Faulty variant: the error callback also drops the alert on display.
OnErrorClears ==
    /\ listener = "active"
    /\ listener' = "errored"
    /\ isMonitoring' = FALSE
    /\ lastDetection' = NoDetection
    /\ UNCHANGED <<store, nextId, feed, previousLogs, notificationShown, alerts, tray>>
    /\ UNCHANGED serverVars
    /\ UNCHANGED consoleVars

\* Faulty variant: the error callback leaves isMonitoring alone.
OnErrorStillMonitoring ==
    /\ listener = "active"
    /\ listener' = "errored"
    /\ UNCHANGED <<store, nextId, feed, isMonitoring, lastDetection, previousLogs,
                   notificationShown, alerts, tray>>
    /\ UNCHANGED serverVars
    /\ UNCHANGED consoleVars

\* the error callback
OnError ==
    /\ listener = "active"
    /\ listener' = "errored"
    /\ isMonitoring' = FALSE
    /\ UNCHANGED <<store, nextId, feed, lastDetection, previousLogs,
                   notificationShown, alerts, tray>>
    /\ UNCHANGED serverVars
    /\ UNCHANGED consoleVars

\* Faulty variant: the cleanup does not call unsubscribe().
CleanupKeepsListening ==
    /\ listener \in {"active", "errored"}
    /\ listener' = "unmounted"
    /\ isMonitoring' = FALSE
    /\ UNCHANGED <<store, nextId, feed, lastDetection, previousLogs,
                   notificationShown, alerts, tray>>
    /\ UNCHANGED serverVars
    /\ UNCHANGED consoleVars

\* the effect's cleanup: setIsMonitoring(false); unsubscribe()
Cleanup ==
    /\ listener \in {"active", "errored"}
    /\ listener' = "detached"
    /\ isMonitoring' = FALSE
    /\ UNCHANGED <<store, nextId, feed, lastDetection, previousLogs,
                   notificationShown, alerts, tray>>
    /\ UNCHANGED serverVars
    /\ UNCHANGED consoleVars

\* Faulty variant: acknowledging also forgets the dedupe history.
clearEverything ==
    /\ listener \in {"active", "errored"}
    /\ lastDetection' = NoDetection
    /\ notificationShown' = <<>>
    /\ UNCHANGED <<store, nextId, feed, listener, isMonitoring,
                   previousLogs, alerts, tray>>
    /\ UNCHANGED serverVars
    /\ UNCHANGED consoleVars

\* clearLastDetection: () => setLastDetection(null)
clearLastDetection ==
    /\ listener \in {"active", "errored"}
    /\ lastDetection' = NoDetection
    /\ UNCHANGED <<store, nextId, feed, listener, isMonitoring,
                   previousLogs, notificationShown, alerts, tray>>
    /\ UNCHANGED serverVars
    /\ UNCHANGED consoleVars

(***************************************************************************)
(* The environment: the device writes logs, an operator runs a bulk delete *)
(***************************************************************************)
\* onSnapshot has been called and unsubscribe has not: every change of the
\* query result is delivered before the next one is made.
Attached == listener \in {"active", "errored"}

\* Beyond the first MaxMixed documents only an unbroken run of denials is
\* explored: every document written so far is still stored and is a denial,
\* and the new one is a denial at room1.
LongRun(a, r) ==
    /\ a = Unauthorized
    /\ r = "room1"
    /\ Len(store) = nextId - 1
    /\ \A i \in 1..Len(store) : store[i].action = Unauthorized

CreateLog ==
    /\ listener # "idle"
    /\ nextId <= MaxLogs
    /\ Attached => feed # "changed"
    /\ \E a \in LogActions, r \in Rooms :
          /\ nextId > MaxMixed => LongRun(a, r)
          /\ store' = Append(store, [id |-> LogIds[nextId], action |-> a,
                                     roomId |-> r])
    /\ nextId' = nextId + 1
    /\ feed' = "changed"
    /\ UNCHANGED <<listener, isMonitoring, lastDetection, previousLogs,
                   notificationShown, alerts, tray>>
    /\ UNCHANGED serverVars
    /\ UNCHANGED consoleVars

\* performBulkDelete, the modes that filter the fetched documents in memory
performBulkDelete ==
    /\ listener # "idle"
    /\ Attached => feed # "changed"
    /\ \E deleteMode \in {"byAction", "byRoom"},
          selectedActions \in (SUBSET LogActions) \ {{}},
          selectedRooms \in (SUBSET (Rooms \ {""})) \ {{}} :
          LET Kept(log) ==
                  /\ deleteMode = "byAction" => log.action \notin selectedActions
                  /\ deleteMode = "byRoom" => log.roomId \notin selectedRooms
          IN /\ \E i \in 1..Len(store) : ~Kept(store[i])
             /\ store' = SelectSeq(store, Kept)
    /\ feed' = "changed"
    /\ UNCHANGED <<nextId, listener, isMonitoring, lastDetection,
                   previousLogs, notificationShown, alerts, tray>>
    /\ UNCHANGED serverVars
    /\ UNCHANGED consoleVars

Next ==
    \/ Mount
    \/ OnSnapshot
    \/ OnError
    \/ Cleanup
    \/ clearLastDetection
    \/ CreateLog
    \/ performBulkDelete

Spec == Init /\ [][Next]_vars

\* The component that calls the hook is mounted again after its cleanup: a
\* new instance with the initial values of useState and useRef, whose effect
\* subscribes.  Notifications on display belong to the browser and stay.
\* Restarts are explored while fewer than MaxAlerts alerts have been raised.
Remount ==
    /\ listener = "detached"
    /\ Len(alerts) < MaxAlerts
    /\ listener' = "active"
    /\ isMonitoring' = TRUE
    /\ lastDetection' = NoDetection
    /\ previousLogs' = <<>>
    /\ notificationShown' = <<>>
    /\ feed' = "changed"
    /\ UNCHANGED <<store, nextId, alerts, tray>>
    /\ UNCHANGED serverVars
    /\ UNCHANGED consoleVars

\* A device that writes logs and a hook that is started and stopped.
NextRestart ==
    \/ Mount
    \/ OnSnapshot
    \/ Cleanup
    \/ Remount
    \/ CreateLog

SpecRestart == Init /\ [][NextRestart]_vars

(***************************************************************************)
(* The token registry: utils/notifications.ts                              *)
(***************************************************************************)
SeqToSet(s) == {s[i] : i \in 1..Len(s)}

\* Array.prototype.includes
Includes(arr, x) == \E i \in 1..Len(arr) : arr[i] = x

\* the device tokens a user document holds: fcmTokens.web and webTokens
Registered(user) ==
    (IF user.web = NoToken THEN {} ELSE {user.web}) \cup SeqToSet(user.webTokens)

\* !(userData?.fcmTokens?.web || []).includes(token): web is a string, so
\* includes is the substring test; tokens have one length, a token is a
\* substring of another exactly when the two are equal
isNewToken(user, token) == user.web = NoToken \/ user.web # token

\* Faulty variant: the token is not added to webTokens.
arrayUnchanged(arr, x) == arr

\* arrayUnion(token)
arrayUnion(arr, x) == IF Includes(arr, x) THEN arr ELSE Append(arr, x)

\* updatedTokens.length > 0 ? updatedTokens[0] : null, valid[0] || null
FirstOrNull(arr) == IF Len(arr) > 0 THEN arr[1] ELSE NoToken

\* saveFCMToken(userId, token)
saveFCMToken ==
    /\ \E userId \in UserIds, token \in Tokens :
          users' = [users EXCEPT ![userId] =
                       IF isNewToken(@, token)
                          THEN [web |-> token,
                                webTokens |-> arrayUnion(@.webTokens, token),
                                enabled |-> TRUE]
                          ELSE @]
    /\ UNCHANGED <<store, nextId, calls, incidents>>
    /\ UNCHANGED hookVars
    /\ UNCHANGED consoleVars

\* removeFCMToken(userId, token) and removeFCMToken(userId)
removeFCMToken ==
    /\ \E userId \in UserIds :
          \/ \E token \in Tokens :
                LET updatedTokens == SelectSeq(users[userId].webTokens,
                                               LAMBDA t : t # token)
                IN users' = [users EXCEPT ![userId].webTokens = updatedTokens,
                                          ![userId].web = FirstOrNull(updatedTokens)]
          \/ users' = [users EXCEPT ![userId].webTokens = <<>>,
                                    ![userId].web = NoToken]
    /\ UNCHANGED <<store, nextId, calls, incidents>>
    /\ UNCHANGED hookVars
    /\ UNCHANGED consoleVars

\* notificationSettings.enabled := false. The field is read by
\* sendActionNotification and getNotificationStats; the screen that lets an
\* operator switch it off is not among the source files.
\* The security-alert path never reads it: it is switched off between
\* invocations.
disableNotifications ==
    /\ \E userId \in UserIds :
          /\ users[userId].enabled
          /\ \A i \in 1..Len(calls) : calls[i].pc \in {"done", "failed"}
          /\ users' = [users EXCEPT ![userId].enabled = FALSE]
    /\ UNCHANGED <<store, nextId, calls, incidents>>
    /\ UNCHANGED hookVars
    /\ UNCHANGED consoleVars

(***************************************************************************)
(* The server: functions/src/index.ts                                      *)
(***************************************************************************)
NoBatch == [u \in UserIds |-> [write |-> FALSE, valid |-> <<>>]]

\* One invocation of onLogCreated, before its first await.  The fields
\* after pc are the locals of the functions it runs; a local holds its
\* initial value again once it is not read any more.
NewCall(log) ==
    [log |-> log, pc |-> "start", snapshot |-> <<>>, logs |-> <<>>,
     tokens |-> {}, invalid |-> {}, batch |-> NoBatch]

InFlight == Cardinality({i \in 1..Len(calls) : calls[i].pc \notin {"done", "failed"}})

\* A document is added to logs and the trigger starts for it.
WriteLog(action, roomId) ==
    /\ nextId <= MaxServerLogs
    /\ InFlight < MaxInFlight
    /\ LET log == [id |-> LogIds[nextId], action |-> action, roomId |-> roomId]
       IN /\ store' = Append(store, log)
          /\ calls' = Append(calls, NewCall(log))
    /\ nextId' = nextId + 1
    /\ UNCHANGED <<users, incidents>>
    /\ UNCHANGED hookVars
    /\ UNCHANGED consoleVars

\* The trigger is delivered at least once: a second invocation for the
\* newest log.  One redelivery is explored per behaviour.
Redeliver ==
    /\ Len(calls) = nextId - 1
    /\ Len(calls) > 0
    /\ InFlight < MaxInFlight
    /\ calls' = Append(calls, NewCall(calls[Len(calls)].log))
    /\ UNCHANGED <<store, nextId, users, incidents>>
    /\ UNCHANGED hookVars
    /\ UNCHANGED consoleVars

\* Faulty variant: the oldest documents instead of the newest.
OldestFirstSnapshot(st) == [i \in 1..Min(K, Len(st)) |-> st[i]]

\* db.collection("logs").orderBy("timestamp", "desc").limit(3).get()
ServerSnapshot(st) == QuerySnapshot(st)

\* sendActionNotification(logData, logId): an activity push to the web token
\* of the enabled accounts.  It writes nothing and ends the invocation: the
\* step that returns to it ends at "done".
AfterCheck == "done"

\* onLogCreated up to the answer of the logs query; no query for a log that
\* is not a denial
QueryLogs(i) ==
    /\ calls[i].pc = "start"
    /\ calls' = IF calls[i].log.action = Unauthorized
                   THEN [calls EXCEPT ![i].snapshot = ServerSnapshot(store),
                                      ![i].pc = "queried"]
                   ELSE [calls EXCEPT ![i].pc = AfterCheck]
    /\ UNCHANGED <<store, nextId, users, incidents>>
    /\ UNCHANGED hookVars
    /\ UNCHANGED consoleVars

\* Faulty variant: the room of the oldest document of the window.
ServerRoomOfFirst(logs) == OrUnknown(logs[1].roomId)

\* const roomId = logs[2].roomId || "Unknown Location"
ServerRoomOf(logs) == OrUnknown(logs[K].roomId)

\* the two early returns of checkForConsecutiveUnauthorizedAttempts:
\* snapshot.size < 3, !allUnauthorized
ServerDetects(snapshot) ==
    /\ ~(Len(snapshot) < K)
    /\ allUnauthorized(Reverse(snapshot))

\* checkForConsecutiveUnauthorizedAttempts once the query has resolved
Evaluate(i) ==
    /\ calls[i].pc = "queried"
    /\ LET snapshot == calls[i].snapshot
           logs == Reverse(snapshot)
       IN calls' = [calls EXCEPT
                       ![i].snapshot = <<>>,
                       ![i].logs = logs,
                       ![i].pc = IF ServerDetects(snapshot) THEN "users"
                                 ELSE AfterCheck]
    /\ UNCHANGED <<store, nextId, users, incidents>>
    /\ UNCHANGED hookVars
    /\ UNCHANGED consoleVars

\* db.collection("users").where("fcmTokens.web", "!=", null)
UsersWithToken(us) == {u \in UserIds : us[u].web # NoToken}

\* tokens.add(web); webTokens.forEach(tokens.add)
TokensOf(us, ids) == UNION {Registered(us[u]) : u \in ids}

\* sendSecurityAlert up to the answer of sendEachForMulticast: the users
\* query, the two early returns, the multicast, of which any token may fail
SendSecurityAlert(i) ==
    /\ calls[i].pc = "users"
    /\ LET userIds == UsersWithToken(users)
           tokens == TokensOf(users, userIds)
       IN IF userIds = {} \/ tokens = {}
             THEN calls' = [calls EXCEPT ![i].pc = "incident"]
             ELSE \E failed \in SUBSET tokens :
                     calls' = [calls EXCEPT
                                  ![i].tokens = tokens,
                                  ![i].invalid = failed,
                                  ![i].pc = IF failed # {} THEN "cleanup"
                                            ELSE "incident"]
    /\ UNCHANGED <<store, nextId, users, incidents>>
    /\ UNCHANGED hookVars
    /\ UNCHANGED consoleVars

\* webTokens.filter((t) => !tokens.includes(t))
ValidTokens(webTokens, tokens) == SelectSeq(webTokens, LAMBDA t : t \notin tokens)

\* cleanupInvalidTokens: the read of the users collection and the batch
CleanupRead(i) ==
    /\ calls[i].pc = "cleanup"
    /\ calls' = [calls EXCEPT
                    ![i].batch =
                        [u \in UserIds |->
                            LET valid == ValidTokens(users[u].webTokens,
                                                     calls[i].invalid)
                            IN [write |-> Len(valid) # Len(users[u].webTokens),
                                valid |-> valid]],
                    ![i].pc = "commit"]
    /\ UNCHANGED <<store, nextId, users, incidents>>
    /\ UNCHANGED hookVars
    /\ UNCHANGED consoleVars

\* cleanupInvalidTokens: batch.commit(); then updateNotificationStats, which
\* merges notificationStats into the documents and leaves the tokens alone
CleanupCommit(i) ==
    /\ calls[i].pc = "commit"
    /\ users' = [u \in UserIds |->
                    IF calls[i].batch[u].write
                       THEN [users[u] EXCEPT
                                !.webTokens = calls[i].batch[u].valid,
                                !.web = FirstOrNull(calls[i].batch[u].valid)]
                       ELSE users[u]]
    /\ calls' = [calls EXCEPT ![i].batch = NoBatch, ![i].pc = "incident"]
    /\ UNCHANGED <<store, nextId, incidents>>
    /\ UNCHANGED hookVars
    /\ UNCHANGED consoleVars

\* createSecurityIncident(roomId, logs)
CreateIncident(i) ==
    /\ calls[i].pc = "incident"
    /\ incidents' = Append(incidents,
                           [call |-> i,
                            type |-> "consecutive_unauthorized_attempts",
                            roomId |-> ServerRoomOf(calls[i].logs),
                            attemptCount |-> Len(calls[i].logs),
                            attempts |-> calls[i].logs,
                            status |-> "open",
                            severity |-> "high",
                            notified |-> TRUE])
    /\ calls' = [calls EXCEPT ![i].logs = <<>>, ![i].tokens = {},
                              ![i].invalid = {}, ![i].pc = AfterCheck]
    /\ UNCHANGED <<store, nextId, users>>
    /\ UNCHANGED hookVars
    /\ UNCHANGED consoleVars

\* An awaited call rejects: the logs or users query, the multicast, the
\* batch commit, the stats update, the write of the incident.  Nothing
\* below onLogCreated catches; its catch logs the error and the invocation
\* ends without running the rest.  One rejection is explored per
\* behaviour.
Rejects(i) ==
    /\ calls[i].pc \in {"start", "users", "cleanup", "commit", "incident"}
    /\ \A j \in 1..Len(calls) : calls[j].pc # "failed"
    /\ calls' = [calls EXCEPT ![i] = [NewCall(@.log) EXCEPT !.pc = "failed"]]
    /\ UNCHANGED <<store, nextId, users, incidents>>
    /\ UNCHANGED hookVars
    /\ UNCHANGED consoleVars

\* The functions are deployed, the logs collection is empty, no device is
\* registered: sendSecurityAlert returns before the multicast.  No awaited
\* call rejects.
InitServer ==
    /\ store = <<>>
    /\ nextId = 1
    /\ feed = "changed"
    /\ listener = "idle"
    /\ isMonitoring = FALSE
    /\ lastDetection = NoDetection
    /\ previousLogs = <<>>
    /\ notificationShown = <<>>
    /\ alerts = <<>>
    /\ tray = <<>>
    /\ users = [u \in UserIds |-> NoUser]
    /\ calls = <<>>
    /\ incidents = <<>>
    /\ InitConsole

NextServer ==
    \/ \E a \in LogActions : WriteLog(a, "room1")
    \/ Redeliver
    \/ \E i \in 1..Len(calls) : QueryLogs(i)
    \/ \E i \in 1..Len(calls) : Evaluate(i)
    \/ \E i \in 1..Len(calls) : SendSecurityAlert(i)
    \/ \E i \in 1..Len(calls) : CreateIncident(i)

SpecServer == InitServer /\ [][NextServer]_vars

\* Three denials are stored and processed, no device is registered.
InitTokens ==
    /\ store = [i \in 1..K |-> [id |-> LogIds[i], action |-> Unauthorized,
                                roomId |-> "room1"]]
    /\ nextId = K + 1
    /\ feed = "changed"
    /\ listener = "idle"
    /\ isMonitoring = FALSE
    /\ lastDetection = NoDetection
    /\ previousLogs = <<>>
    /\ notificationShown = <<>>
    /\ alerts = <<>>
    /\ tray = <<>>
    /\ users = [u \in UserIds |-> NoUser]
    /\ calls = <<>>
    /\ incidents = <<>>
    /\ InitConsole

NextTokens ==
    \/ saveFCMToken
    \/ removeFCMToken
    \/ disableNotifications
    \/ WriteLog(Unauthorized, "room1")
    \/ \E i \in 1..Len(calls) : QueryLogs(i)
    \/ \E i \in 1..Len(calls) : Evaluate(i)
    \/ \E i \in 1..Len(calls) : SendSecurityAlert(i)
    \/ \E i \in 1..Len(calls) : CleanupRead(i)
    \/ \E i \in 1..Len(calls) : CleanupCommit(i)
    \/ \E i \in 1..Len(calls) : CreateIncident(i)
    \/ \E i \in 1..Len(calls) : Rejects(i)

SpecTokens == InitTokens /\ [][NextTokens]_vars

(***************************************************************************)
(* The bulk delete screen: app/screens/bulkDeleteLogs.tsx                  *)
(***************************************************************************)
\* A log is written on the day of its creation index; the screen is used on
\* the day after the last one.
DayOf(log) == CHOOSE d \in 1..Len(LogIds) : LogIds[d] = log.id

Today == MaxBulkLogs + 1

DayChoices == {NoDays, 1, 30}

DateChoices == {NoDate} \cup (1..MaxBulkLogs)

\* rooms.map((room) => room.id)
availableRooms == Rooms \ {""}

\* the logs the context provides: newest first, of the selected room only
\* when a room is selected
ContextLogs(st, room) ==
    IF room # NoRoom
       THEN SelectSeq(Reverse(st), LAMBDA log : log.roomId = room)
       ELSE Reverse(st)

\* the filter of deleteStats, by mode
StatsMatches(c, log) ==
    IF c.deleteMode = "olderThan" /\ c.daysOld # NoDays
       THEN DayOf(log) + c.daysOld < Today
    ELSE IF c.deleteMode = "dateRange" /\ c.startDate # NoDate /\ c.endDate # NoDate
       THEN DayOf(log) >= c.startDate /\ DayOf(log) <= c.endDate
    ELSE IF c.deleteMode = "specificDate" /\ c.specificDate # NoDate
       THEN DayOf(log) >= c.specificDate /\ DayOf(log) <= c.specificDate
    ELSE IF c.deleteMode = "byAction" /\ c.selectedActions # {}
       THEN log.action \in c.selectedActions
    ELSE IF c.deleteMode = "byRoom" /\ c.selectedRooms # {}
       THEN log.roomId # "" /\ log.roomId \in c.selectedRooms
    ELSE TRUE

FilteredLogs(logs, c) == SelectSeq(logs, LAMBDA log : StatsMatches(c, log))

\* deleteStats: the counts the screen previews
deleteStats(logs, c) ==
    [totalLogs |-> Len(logs), matchingLogs |-> Len(FilteredLogs(logs, c))]

\* the where() clauses performBulkDelete adds to query(collection(db, "logs"))
QueryMatches(c, log) ==
    IF c.deleteMode = "olderThan" /\ c.daysOld # NoDays
       THEN DayOf(log) + c.daysOld < Today
    ELSE IF c.deleteMode = "dateRange" /\ c.startDate # NoDate /\ c.endDate # NoDate
       THEN DayOf(log) >= c.startDate /\ DayOf(log) <= c.endDate
    ELSE IF c.deleteMode = "specificDate" /\ c.specificDate # NoDate
       THEN DayOf(log) >= c.specificDate /\ DayOf(log) <= c.specificDate
    ELSE TRUE

\* the filters performBulkDelete applies in memory to the fetched documents
MemoryMatches(c, log) ==
    /\ (c.deleteMode = "byAction" /\ c.selectedActions # {})
          => log.action \in c.selectedActions
    /\ (c.deleteMode = "byRoom" /\ c.selectedRooms # {})
          => log.roomId \in c.selectedRooms

\* docsToDelete of performBulkDelete
DocsToDelete(st, c) ==
    SelectSeq(st, LAMBDA log : QueryMatches(c, log) /\ MemoryMatches(c, log))

setSelectedRoom ==
    /\ \E room \in {NoRoom} \cup availableRooms :
          /\ room # selectedRoom
          /\ selectedRoom' = room
    /\ UNCHANGED <<store, nextId, criteria, cards, occupied>>
    /\ UNCHANGED <<hookVars, serverVars>>

setDeleteMode ==
    /\ \E mode \in DeleteModes :
          /\ mode # criteria.deleteMode
          /\ criteria' = [criteria EXCEPT !.deleteMode = mode]
    /\ UNCHANGED <<store, nextId, selectedRoom, cards, occupied>>
    /\ UNCHANGED <<hookVars, serverVars>>

\* the controls of a mode are rendered while the mode is chosen
setDaysOld ==
    /\ criteria.deleteMode = "olderThan"
    /\ \E days \in DayChoices :
          /\ days # criteria.daysOld
          /\ criteria' = [criteria EXCEPT !.daysOld = days]
    /\ UNCHANGED <<store, nextId, selectedRoom, cards, occupied>>
    /\ UNCHANGED <<hookVars, serverVars>>

setStartDate ==
    /\ criteria.deleteMode = "dateRange"
    /\ \E date \in DateChoices :
          /\ date # criteria.startDate
          /\ criteria' = [criteria EXCEPT !.startDate = date]
    /\ UNCHANGED <<store, nextId, selectedRoom, cards, occupied>>
    /\ UNCHANGED <<hookVars, serverVars>>

setEndDate ==
    /\ criteria.deleteMode = "dateRange"
    /\ \E date \in DateChoices :
          /\ date # criteria.endDate
          /\ criteria' = [criteria EXCEPT !.endDate = date]
    /\ UNCHANGED <<store, nextId, selectedRoom, cards, occupied>>
    /\ UNCHANGED <<hookVars, serverVars>>

setSpecificDate ==
    /\ criteria.deleteMode = "specificDate"
    /\ \E date \in DateChoices :
          /\ date # criteria.specificDate
          /\ criteria' = [criteria EXCEPT !.specificDate = date]
    /\ UNCHANGED <<store, nextId, selectedRoom, cards, occupied>>
    /\ UNCHANGED <<hookVars, serverVars>>

\* availableActions: the actions of the logs the context provides
toggleAction ==
    /\ criteria.deleteMode = "byAction"
    /\ \E action \in {log.action : log \in SeqToSet(ContextLogs(store, selectedRoom))} :
          criteria' = [criteria EXCEPT !.selectedActions =
                          IF action \in @ THEN @ \ {action} ELSE @ \cup {action}]
    /\ UNCHANGED <<store, nextId, selectedRoom, cards, occupied>>
    /\ UNCHANGED <<hookVars, serverVars>>

toggleRoom ==
    /\ criteria.deleteMode = "byRoom"
    /\ \E room \in availableRooms :
          criteria' = [criteria EXCEPT !.selectedRooms =
                          IF room \in @ THEN @ \ {room} ELSE @ \cup {room}]
    /\ UNCHANGED <<store, nextId, selectedRoom, cards, occupied>>
    /\ UNCHANGED <<hookVars, serverVars>>

\* handleBulkDelete: nothing to do when the preview counts no log; else
\* performBulkDelete fetches, filters and deletes
handleBulkDelete ==
    /\ deleteStats(ContextLogs(store, selectedRoom), criteria).matchingLogs # 0
    /\ LET docsToDelete == DocsToDelete(store, criteria)
       IN store' = SelectSeq(store, LAMBDA log : log \notin SeqToSet(docsToDelete))
    /\ UNCHANGED <<nextId, selectedRoom, criteria, cards, occupied>>
    /\ UNCHANGED <<hookVars, serverVars>>

\* The screen is opened on a collection that holds up to MaxBulkLogs logs.
InitBulk ==
    /\ \E n \in 0..MaxBulkLogs :
          /\ store \in [1..n -> [id : SeqToSet(LogIds), action : LogActions, roomId : Rooms]]
          /\ \A i \in 1..n : store[i].id = LogIds[i]
          /\ nextId = n + 1
    /\ feed = "changed"
    /\ listener = "idle"
    /\ isMonitoring = FALSE
    /\ lastDetection = NoDetection
    /\ previousLogs = <<>>
    /\ notificationShown = <<>>
    /\ alerts = <<>>
    /\ tray = <<>>
    /\ users = [u \in UserIds |-> NoUser]
    /\ calls = <<>>
    /\ incidents = <<>>
    /\ InitConsole

NextBulk ==
    \/ setSelectedRoom
    \/ setDeleteMode
    \/ setDaysOld
    \/ setStartDate
    \/ setEndDate
    \/ setSpecificDate
    \/ toggleAction
    \/ toggleRoom
    \/ handleBulkDelete

SpecBulk == InitBulk /\ [][NextBulk]_vars

(***************************************************************************)
(* The room card: components/roomCard.tsx                                  *)
(***************************************************************************)
\* the button is pressed: disabled={occupied || isUnlocking}; handleUnlock
\* returns for an occupied room, else sets the two states and sends the
\* POST to /webControl
handleUnlock(r) ==
    /\ ~cards[r].isUnlocking
    /\ ~occupied[r]
    /\ cards[r].timers < MaxTimers
    /\ cards' = [cards EXCEPT ![r].isUnlocking = TRUE,
                              ![r].unlockStatus = "unlocking",
                              ![r].request = "pending"]
    /\ UNCHANGED <<store, nextId, selectedRoom, criteria, occupied>>
    /\ UNCHANGED <<hookVars, serverVars>>

\* the fetch settles: success when response.ok and data.status is
\* "success", error otherwise or when fetch or json() throws; finally sets
\* the timer of 3000 ms and setIsUnlocking(false)
Responds(r) ==
    /\ cards[r].request = "pending"
    /\ \E status \in {"success", "error"} :
          cards' = [cards EXCEPT ![r].unlockStatus = status,
                                 ![r].timers = @ + 1,
                                 ![r].isUnlocking = FALSE,
                                 ![r].request = "none"]
    /\ UNCHANGED <<store, nextId, selectedRoom, criteria, occupied>>
    /\ UNCHANGED <<hookVars, serverVars>>

\* setTimeout(() => setUnlockStatus("idle"), 3000) comes due
ResetTimerFires(r) ==
    /\ cards[r].timers > 0
    /\ cards' = [cards EXCEPT ![r].unlockStatus = "idle",
                              ![r].timers = @ - 1]
    /\ UNCHANGED <<store, nextId, selectedRoom, criteria, occupied>>
    /\ UNCHANGED <<hookVars, serverVars>>

\* the rooms collection changes: somebody enters or leaves the room
RoomChanges(r) ==
    /\ occupied' = [occupied EXCEPT ![r] = ~@]
    /\ UNCHANGED <<store, nextId, selectedRoom, criteria, cards>>
    /\ UNCHANGED <<hookVars, serverVars>>

NextCard ==
    \/ \E r \in CardRooms : handleUnlock(r)
    \/ \E r \in CardRooms : Responds(r)
    \/ \E r \in CardRooms : ResetTimerFires(r)
    \/ \E r \in CardRooms : RoomChanges(r)

SpecCard == Init /\ [][NextCard]_vars

(***************************************************************************)
(* Vocabulary of the properties                                            *)
(***************************************************************************)
\* The K most recent documents of the collection, oldest first.
Window == IF Len(store) <= K THEN store ELSE SubSeq(store, Len(store) - K + 1, Len(store))

Ids(logs) == [i \in 1..Len(logs) |-> logs[i].id]

IdSet(logs) == {logs[i].id : i \in 1..Len(logs)}

\* The alerts whose keys the dedupe history still holds.
Remembered == {i \in 1..Len(alerts) : i > Len(alerts) - Len(notificationShown)}

NoEmission == UNCHANGED <<alerts, lastDetection, notificationShown>>

Emitted(logs) ==
    /\ alerts' = Append(alerts, [roomId |-> alerts'[Len(alerts')].roomId, attempts |-> logs])
    /\ lastDetection'.detected
    /\ lastDetection'.attempts = logs

(***************************************************************************)
(* C1: within one monitoring session no two alerts are raised for the same *)
(* ordered set of 3 entry ids, whatever windows are delivered.             *)
(***************************************************************************)
C1_NoDuplicateAlerts ==
    \A i, j \in 1..Len(alerts) :
        i # j => Ids(alerts[i].attempts) # Ids(alerts[j].attempts)

(***************************************************************************)
(* C2: a delivered window of exactly K denials whose key is not in the     *)
(* recent-keys set yields exactly one DetectionResult, and its attempts    *)
(* are the window oldest first.                                            *)
(***************************************************************************)
C2_FreshRunAlertsOnce ==
    [][(/\ OnSnapshot
        /\ Len(Window) = K
        /\ \A i \in 1..K : Window[i].action = Unauthorized
        /\ \A i \in 1..Len(notificationShown) :
              notificationShown[i] # detectionKey(Window))
       => Emitted(Window)]_vars

C2_Witness ==
    /\ feed = "delivered"
    /\ Len(alerts) = 1
    /\ lastDetection.detected
    /\ lastDetection.attempts = Window
    /\ Ids(alerts[1].attempts) = <<"a", "b", "c">>

(***************************************************************************)
(* C3: a delivered window of fewer than K entries never emits and leaves   *)
(* lastDetection and the recent-keys set as they were, whatever the        *)
(* actions and the dedupe history.                                         *)
(***************************************************************************)
C3_ShortWindowSilent ==
    [][(OnSnapshot /\ Len(store) < K) => NoEmission]_vars

C3_Witness ==
    /\ feed = "delivered"
    /\ Len(previousLogs) > 0
    /\ Len(previousLogs) < K
    /\ previousLogs = Window
    /\ \A i \in 1..Len(previousLogs) : previousLogs[i].action = Unauthorized
    /\ notificationShown # <<>>
    /\ lastDetection.detected

(***************************************************************************)
(* C4: a delivered window of K entries of which at least one, at any       *)
(* position, is not an unauthorized attempt never emits.                   *)
(***************************************************************************)
C4_MixedWindowSilent ==
    [][(/\ OnSnapshot
        /\ Len(Window) = K
        /\ \E i \in 1..K : Window[i].action # Unauthorized)
       => NoEmission]_vars

C4_Witness ==
    /\ feed = "delivered"
    /\ previousLogs = Window
    /\ Len(previousLogs) = K
    /\ previousLogs[1].action = Unauthorized
    /\ previousLogs[2].action # Unauthorized
    /\ previousLogs[3].action = Unauthorized
    /\ alerts = <<>>

(***************************************************************************)
(* C5: the same all-denial window delivered twice in a row emits on the    *)
(* first delivery at most; the second delivery changes neither             *)
(* lastDetection nor the recent-keys set.                                  *)
(***************************************************************************)
C5_RedeliveryIdempotent ==
    [][(/\ OnSnapshot
        /\ Len(Window) = K
        /\ \A i \in 1..K : Window[i].action = Unauthorized
        /\ previousLogs = Window)
       => NoEmission]_vars

C5_Witness ==
    /\ feed = "redelivered"
    /\ previousLogs = Window
    /\ Len(previousLogs) = K
    /\ \A i \in 1..K : previousLogs[i].action = Unauthorized
    /\ Len(alerts) = 1
    /\ alerts[1].attempts = previousLogs

(***************************************************************************)
(* C6: an all-denial window whose id membership differs from every window  *)
(* still in the dedupe history raises a new alert, also when it overlaps   *)
(* an alerted window; a run of n >= 3 denials delivered one snapshot per   *)
(* insert raises n - 2 alerts, one per window of the run.                  *)
(***************************************************************************)
RunDelivered ==
    /\ listener = "active"
    /\ feed # "changed"
    /\ Len(store) = nextId - 1
    /\ Len(store) >= K
    /\ \A i \in 1..Len(store) : store[i].action = Unauthorized

C6_OverlappingRunsAlert ==
    /\ [](RunDelivered =>
             /\ Len(alerts) = Len(store) - 2
             /\ \A i \in 1..Len(alerts) : alerts[i].attempts = SubSeq(store, i, i + 2))
    /\ [][(/\ OnSnapshot
           /\ Len(Window) = K
           /\ \A i \in 1..K : Window[i].action = Unauthorized
           /\ \A j \in Remembered : IdSet(alerts[j].attempts) # IdSet(Window))
          => Emitted(Window)]_vars

C6_Witness ==
    /\ RunDelivered
    /\ Len(alerts) = 2
    /\ Ids(alerts[1].attempts) = <<"a", "b", "c">>
    /\ Ids(alerts[2].attempts) = <<"b", "c", "d">>
    /\ lastDetection.attempts = alerts[2].attempts

(***************************************************************************)
(* C7: the recent-keys set never holds more than 10 keys, however many     *)
(* distinct all-denial windows are delivered.                              *)
(***************************************************************************)
C7_BoundedHistory == Len(notificationShown) <= KeepLast

C7_Witness ==
    /\ Len(alerts) > KeepLast
    /\ Len(notificationShown) = KeepLast

(***************************************************************************)
(* C8: eviction is first in, first out: when a key is added to a full      *)
(* history, the key inserted earliest is removed and the 10 most recently  *)
(* inserted keys, the new one included, stay in insertion order.           *)
(***************************************************************************)
C8_FifoEviction ==
    [][(Len(notificationShown) = KeepLast /\ alerts' # alerts)
       => notificationShown' =
              Append(Tail(notificationShown),
                     detectionKey(alerts'[Len(alerts')].attempts))]_vars

C8_Witness ==
    /\ Len(alerts) = KeepLast + 1
    /\ Len(notificationShown) = KeepLast
    /\ notificationShown[1] = detectionKey(alerts[2].attempts)
    /\ notificationShown[KeepLast] = detectionKey(alerts[KeepLast + 1].attempts)

(***************************************************************************)
(* C9: clearLastDetection sets lastDetection to none and leaves the dedupe *)
(* history alone; a redelivery of the acknowledged window emits nothing    *)
(* and lastDetection stays none.                                           *)
(***************************************************************************)
C9_AcknowledgeKeepsHistory ==
    [][/\ clearLastDetection =>
             /\ lastDetection' = NoDetection
             /\ UNCHANGED <<notificationShown, previousLogs, alerts>>
       /\ (/\ OnSnapshot
           /\ lastDetection = NoDetection
           /\ alerts # <<>>
           /\ Window = alerts[Len(alerts)].attempts)
          => (alerts' = alerts /\ lastDetection' = NoDetection)]_vars

C9_Witness ==
    /\ listener = "active"
    /\ feed = "redelivered"
    /\ lastDetection = NoDetection
    /\ alerts # <<>>
    /\ previousLogs = alerts[Len(alerts)].attempts
    /\ previousLogs = Window
    /\ SetHas(notificationShown, detectionKey(previousLogs))

(***************************************************************************)
(* C10: lastDetection is none or the most recently emitted result; a new   *)
(* result overwrites an unacknowledged one; lastDetection changes only on  *)
(* a new alert or on acknowledge, never on a non-alerting window.          *)
(***************************************************************************)
C10_SingleLiveAlert ==
    /\ [](\/ lastDetection = NoDetection
          \/ /\ alerts # <<>>
             /\ lastDetection.detected
             /\ lastDetection.attempts = alerts[Len(alerts)].attempts
             /\ lastDetection.roomId = alerts[Len(alerts)].roomId)
    /\ [][lastDetection' # lastDetection
          => \/ /\ Len(alerts') = Len(alerts) + 1
                /\ lastDetection'.attempts = alerts'[Len(alerts')].attempts
             \/ clearLastDetection]_vars

C10_Witness ==
    /\ Len(alerts) >= 2
    /\ lastDetection.detected
    /\ lastDetection.attempts = alerts[Len(alerts)].attempts
    /\ feed = "delivered"
    /\ previousLogs = Window
    /\ Len(previousLogs) < K

(***************************************************************************)
(* C11: when the error callback fires isMonitoring becomes false, and when *)
(* a window is next delivered to the snapshot callback isMonitoring is     *)
(* true again and the window is evaluated with the normal rule.            *)
(***************************************************************************)
C11_MonitoringResumes ==
    [][/\ (listener = "active" /\ listener' = "errored") => ~isMonitoring'
       /\ (OnSnapshot /\ listener = "errored")
             => /\ isMonitoring'
                /\ previousLogs' = Window]_vars

(***************************************************************************)
(* C12: isMonitoring is true exactly when the subscription is active and   *)
(* has reported no error; the step on which the subscription reports an    *)
(* error sets isMonitoring to false and leaves lastDetection, the dedupe   *)
(* history and everything else of the detector as it was.                  *)
(***************************************************************************)
C12_MonitoringFlag ==
    /\ [](isMonitoring <=> listener = "active")
    /\ [][(listener = "active" /\ listener' = "errored")
            => /\ ~isMonitoring'
               /\ UNCHANGED <<lastDetection, notificationShown, previousLogs,
                              alerts, tray>>]_vars

C12_Witness ==
    /\ listener = "errored"
    /\ ~isMonitoring
    /\ lastDetection.detected
    /\ Len(notificationShown) = 2

(***************************************************************************)
(* C13: once the session is torn down no window is evaluated: no alert is  *)
(* emitted and lastDetection, the dedupe history and the window last seen  *)
(* never change again, whatever is written to the logs afterwards.         *)
(***************************************************************************)
C13_TeardownStopsEvaluation ==
    [][(listener # "idle" /\ ~Attached)
         => /\ UNCHANGED <<alerts, tray, lastDetection, notificationShown,
                           previousLogs, isMonitoring>>
            /\ ~Attached']_vars

C13_Witness ==
    /\ listener = "detached"
    /\ Len(Window) = K
    /\ \A i \in 1..K : Window[i].action = Unauthorized
    /\ \A i \in 1..Len(alerts) : Ids(alerts[i].attempts) # Ids(Window)
    /\ previousLogs # Window

(***************************************************************************)
(* C14 as stated: every window the detector evaluates has at most K        *)
(* entries and is the K most recent logs of the store at the time of the   *)
(* evaluation, oldest first, on the client snapshot path and on the server *)
(* query path.                                                             *)
(***************************************************************************)
C14_WindowAtEvaluation ==
    /\ [](/\ Len(ChronologicalLogs(QuerySnapshot(store))) <= K
          /\ ChronologicalLogs(QuerySnapshot(store)) = Window)
    /\ [][\A i \in 1..Len(calls) :
            Evaluate(i) => /\ Len(calls'[i].logs) <= K
                           /\ calls'[i].logs = Window]_vars

(***************************************************************************)
(* C14 amended: every window the detector evaluates has at most K entries  *)
(* and is the K most recent logs of the store, oldest first, at the time   *)
(* the snapshot or query result it is built from was taken; on the server  *)
(* path logs written between the query and the evaluation are not in it.   *)
(***************************************************************************)
C14_WindowAtQuery ==
    /\ [](/\ Len(ChronologicalLogs(QuerySnapshot(store))) <= K
          /\ ChronologicalLogs(QuerySnapshot(store)) = Window)
    /\ [][\A i \in 1..Len(calls) :
            /\ (QueryLogs(i) /\ calls'[i].pc = "queried")
                  => /\ Len(calls'[i].snapshot) <= K
                     /\ Len(calls'[i].snapshot) = Len(Window)
                     /\ \A n \in 1..Len(Window) :
                           calls'[i].snapshot[n] = Window[Len(Window) + 1 - n]
            /\ Evaluate(i)
                  => /\ Len(calls'[i].logs) = Len(calls[i].snapshot)
                     /\ \A n \in 1..Len(calls[i].snapshot) :
                           calls'[i].logs[n] =
                               calls[i].snapshot[Len(calls[i].snapshot) + 1 - n]]_vars

\* A window of K denials has been evaluated; the store has moved on since
\* the query.
C14_Witness ==
    \E i \in 1..Len(calls) :
        /\ calls[i].pc = "users"
        /\ Len(calls[i].logs) = K
        /\ calls[i].logs # Window

(***************************************************************************)
(* C15: no two security_incidents records carry the same set of 3 attempt  *)
(* ids, whatever the interleaving of the onLogCreated invocations.         *)
(***************************************************************************)
C15_OneIncidentPerRun ==
    \A i, j \in 1..Len(incidents) :
        i # j => IdSet(incidents[i].attempts) # IdSet(incidents[j].attempts)

(***************************************************************************)
(* C16: when cleanupInvalidTokens commits, no failed token remains in any  *)
(* user's fcmTokens.web or fcmTokens.webTokens, and every token registered *)
(* that did not fail is still registered.                                  *)
(***************************************************************************)
C16_FailedTokensPruned ==
    [][\A i \in 1..Len(calls) :
          CleanupCommit(i)
            => \A u \in UserIds :
                  /\ \A t \in calls[i].invalid : t \notin Registered(users'[u])
                  /\ \A t \in Registered(users[u]) \ calls[i].invalid :
                        t \in Registered(users'[u])]_vars

(***************************************************************************)
(* C17: the security-alert multicast targets exactly the registered device *)
(* tokens (web and webTokens) of the accounts whose notifications are      *)
(* enabled.                                                                *)
(***************************************************************************)
C17_FanOutTargetsEnabled ==
    [][\A i \in 1..Len(calls) :
          SendSecurityAlert(i)
            => calls'[i].tokens =
                   UNION {Registered(users[u]) : u \in {v \in UserIds : users[v].enabled}}]_vars

(***************************************************************************)
(* C18: every emitted detection sets lastDetection and records its key in  *)
(* the dedupe history, also when the browser notification is not shown     *)
(* (permission not granted, or the notification throws).                   *)
(***************************************************************************)
C18_LocalAlertIndependent ==
    [][Len(alerts') = Len(alerts) + 1
         => LET alert == alerts'[Len(alerts')]
            IN /\ lastDetection'.detected
               /\ lastDetection'.attempts = alert.attempts
               /\ lastDetection'.roomId = alert.roomId
               /\ \E i \in 1..Len(notificationShown') :
                      notificationShown'[i] = Join(Ids(alert.attempts), "-")]_vars

\* Two alerts were emitted, no notification is on display: none was shown.
C18_Witness ==
    /\ Len(alerts) = 2
    /\ tray = <<>>
    /\ lastDetection.detected
    /\ lastDetection.attempts = alerts[2].attempts
    /\ Len(notificationShown) = 2

(***************************************************************************)
(* C19: at most one security-alert notification is on display at a time,   *)
(* hence at most one for a given DetectionResult, however many times       *)
(* showSecurityAlert is invoked.                                           *)
(***************************************************************************)
C19_NotificationsCoalesce ==
    /\ Cardinality({i \in 1..Len(tray) : tray[i].tag = SecurityAlertTag}) <= 1
    /\ \A i, j \in 1..Len(tray) : i # j => tray[i].attempts # tray[j].attempts

\* showSecurityAlert was invoked twice for the same attempts; one
\* notification for them is on display.
C19_Witness ==
    /\ \E i \in 1..Len(alerts) :
          /\ i < Len(alerts)
          /\ Ids(alerts[i].attempts) = Ids(alerts[Len(alerts)].attempts)
    /\ Len(tray) = 1
    /\ tray[1].attempts = Ids(alerts[Len(alerts)].attempts)

(***************************************************************************)
(* C20 as stated: the roomId of every emitted DetectionResult is the       *)
(* roomId of the last entry of its window.                                 *)
(***************************************************************************)
C20_RoomOfLastEntry ==
    \A i \in 1..Len(alerts) : alerts[i].roomId = alerts[i].attempts[K].roomId

(***************************************************************************)
(* C20 amended: the roomId of every emitted DetectionResult is the roomId  *)
(* of the last entry of its window, or "Unknown Location" when that entry  *)
(* has no roomId; the rooms of the older entries play no part.  The server *)
(* check computes the same room for the window.                            *)
(***************************************************************************)
C20_RoomOfLastEntryOrUnknown ==
    /\ \A i \in 1..Len(alerts) :
          LET last == alerts[i].attempts[K].roomId
          IN alerts[i].roomId = IF last = "" THEN "Unknown Location" ELSE last
    /\ lastDetection.detected
          => LET last == lastDetection.attempts[K].roomId
             IN lastDetection.roomId = IF last = "" THEN "Unknown Location" ELSE last
    /\ Len(Window) = K
          => LET last == Window[K].roomId
             IN ServerRoomOf(Window) = IF last = "" THEN "Unknown Location" ELSE last

C20_Witness ==
    \E i, j \in 1..Len(alerts) :
        /\ alerts[i].attempts[1].roomId = ""
        /\ alerts[i].roomId = "room1"
        /\ alerts[j].attempts[1].roomId = "room1"
        /\ alerts[j].roomId = "Unknown Location"

(***************************************************************************)
(* C21: every security_incidents record ever written has type              *)
(* consecutive_unauthorized_attempts, status open and severity high; its   *)
(* attemptCount is the length of its attempts list and is K; its attempts  *)
(* are unauthorized attempts only.                                         *)
(***************************************************************************)
C21_IncidentShape ==
    \A n \in 1..Len(incidents) :
        /\ incidents[n].type = "consecutive_unauthorized_attempts"
        /\ incidents[n].status = "open"
        /\ incidents[n].severity = "high"
        /\ incidents[n].attemptCount = Len(incidents[n].attempts)
        /\ incidents[n].attemptCount = K
        /\ \A k \in 1..Len(incidents[n].attempts) :
              incidents[n].attempts[k].action = Unauthorized

\* An incident was written although a log that is not a denial is stored.
C21_Witness ==
    /\ Len(incidents) > 0
    /\ \E k \in 1..Len(store) : store[k].action # Unauthorized

(***************************************************************************)
(* C22: the dedupe history survives a restart of the hook: when an alert   *)
(* was raised for a window, the hook is unmounted and mounted again, and   *)
(* the window is still the K most recent logs, the first snapshot of the   *)
(* new instance raises no second alert for it.  The first snapshot of an   *)
(* instance is the one delivered while previousLogs is still empty.        *)
(***************************************************************************)
C22_DedupeSurvivesRestart ==
    [][(/\ OnSnapshot
        /\ previousLogs = <<>>
        /\ \E n \in 1..Len(alerts) : alerts[n].attempts = Window)
       => alerts' = alerts]_vars

(***************************************************************************)
(* C23: client and server detection agree.  For every window of the K most *)
(* recent logs the server check decides to alert exactly when the client   *)
(* detector with an empty dedupe history emits, and both report the same   *)
(* roomId: that of the newest entry, or "Unknown Location" when the entry  *)
(* has none.                                                               *)
(***************************************************************************)
C23_ClientServerAgree ==
    /\ [](LET logs == ChronologicalLogs(QuerySnapshot(store))
          IN /\ ServerDetects(ServerSnapshot(store)) <=> ShouldAlert(logs, <<>>)
             /\ ServerDetects(ServerSnapshot(store))
                   => /\ ServerRoomOf(Reverse(ServerSnapshot(store))) = RoomOf(logs)
                      /\ RoomOf(logs) = IF Window[K].roomId = ""
                                           THEN "Unknown Location"
                                           ELSE Window[K].roomId)
    /\ [][(OnSnapshot /\ notificationShown = <<>>)
            => /\ alerts' # alerts <=> ServerDetects(ServerSnapshot(store))
               /\ alerts' # alerts
                     => alerts'[Len(alerts')].roomId =
                            ServerRoomOf(Reverse(ServerSnapshot(store)))]_vars

\* The client alerted with an empty history for the stored window, which
\* the server check detects too; the rooms of its entries differ.
C23_Witness ==
    /\ Len(alerts) = 1
    /\ alerts[1].attempts = Window
    /\ ServerDetects(ServerSnapshot(store))
    /\ Window[1].roomId = "room1"
    /\ Window[K].roomId = ""
    /\ alerts[1].roomId = "Unknown Location"

(***************************************************************************)
(* C24: every incident created by an invocation of onLogCreated has the    *)
(* log that triggered the invocation as the newest of its attempts,        *)
(* however log creations interleave with the invocation's query; a log     *)
(* that is not an unauthorized attempt never causes an incident.           *)
(***************************************************************************)
C24_IncidentOfTriggeringLog ==
    \A n \in 1..Len(incidents) :
        LET trigger == calls[incidents[n].call].log
            attempts == incidents[n].attempts
        IN /\ trigger.action = Unauthorized
           /\ attempts[Len(attempts)].id = trigger.id

(***************************************************************************)
(* C25: a failure of the push fan-out does not lose the incident.  An      *)
(* invocation that found K consecutive denials and is inside               *)
(* sendSecurityAlert (users query, multicast, token cleanup, stats update) *)
(* does not end before its security_incidents record is written.           *)
(***************************************************************************)
C25_IncidentSurvivesFanOutFailure ==
    [][\A i \in 1..Len(calls) :
          (/\ calls[i].pc \in {"users", "cleanup", "commit"}
           /\ calls'[i].pc \in {"done", "failed"})
             => \E n \in 1..Len(incidents') : incidents'[n].call = i]_vars

(***************************************************************************)
(* C26: the notified field of an incident is true only if the invocation   *)
(* sent the security-alert push to at least one device token; when no user *)
(* has a registered token and sendSecurityAlert returns early, the         *)
(* incident is written with notified false.                                *)
(***************************************************************************)
C26_NotifiedMeansPushed ==
    [][\A i \in 1..Len(calls) :
          CreateIncident(i)
            => (incidents'[Len(incidents')].notified => calls[i].tokens # {})]_vars

(***************************************************************************)
(* C27: starting from user documents without fcmTokens, after any sequence *)
(* of saveFCMToken, removeFCMToken (with or without a token) and           *)
(* cleanupInvalidTokens, fcmTokens.web of every user is null or an element *)
(* of fcmTokens.webTokens.                                                 *)
(***************************************************************************)
C27_WebAmongWebTokens ==
    \A u \in UserIds :
        \/ users[u].web = NoToken
        \/ \E k \in 1..Len(users[u].webTokens) : users[u].webTokens[k] = users[u].web

\* A cleanup has committed; a user keeps a token that did not fail, and it
\* is the web token.
C27_Witness ==
    \E i \in 1..Len(calls), u \in UserIds :
        /\ calls[i].pc = "incident"
        /\ calls[i].invalid # {}
        /\ Len(users[u].webTokens) = 1
        /\ users[u].web = users[u].webTokens[1]
        /\ users[u].web \notin calls[i].invalid
        /\ users[u].web \in calls[i].tokens

(***************************************************************************)
(* C28: cleanupInvalidTokens removes only failed tokens under concurrency. *)
(* A token that a saveFCMToken call put into a user's fcmTokens.webTokens  *)
(* between the cleanup's read of the users collection and its batch        *)
(* commit, and that is not one of the failed tokens, is still in that      *)
(* user's fcmTokens.webTokens when the batch has been committed.           *)
(***************************************************************************)
C28_CleanupKeepsConcurrentSave ==
    [][\A i \in 1..Len(calls) :
          CleanupCommit(i)
            => \A u \in UserIds :
                  \A k \in 1..Len(users[u].webTokens) :
                      LET t == users[u].webTokens[k]
                      IN (t \notin calls[i].invalid /\ ~Includes(calls[i].batch[u].valid, t))
                            => Includes(users'[u].webTokens, t)]_vars

(***************************************************************************)
(* C29: bulk delete removes exactly the previewed logs.  For every delete  *)
(* mode and filter setting, and whichever room is selected in the          *)
(* dashboard context, the logs a run of performBulkDelete deletes are the  *)
(* logs counted in deleteStats.matchingLogs.                               *)
(***************************************************************************)
C29_DeletesThePreviewed ==
    [][handleBulkDelete
         => /\ IdSet(store) \ IdSet(store')
                  = IdSet(FilteredLogs(ContextLogs(store, selectedRoom), criteria))
            /\ Len(store) - Len(store')
                  = deleteStats(ContextLogs(store, selectedRoom), criteria).matchingLogs]_vars

(***************************************************************************)
(* C30: the unlock status machine of a room card.  No unlock request is    *)
(* sent for an occupied room, and while a request is in flight the card's  *)
(* unlockStatus stays "unlocking" until the request resolves, also when    *)
(* the request was started while the reset-to-idle timer of a previous     *)
(* request was pending.                                                    *)
(***************************************************************************)
C30_UnlockStatusMachine ==
    /\ [][\A r \in CardRooms :
            (cards[r].request = "none" /\ cards'[r].request = "pending")
               => ~occupied[r]]_vars
    /\ [](\A r \in CardRooms :
            cards[r].request = "pending" => cards[r].unlockStatus = "unlocking")

====
